---- MODULE Spec2Model ----
(***************************************************************************)
(* Model of elkapod_comm_server.py: the ElkapodCommServer node that talks  *)
(* to the Hexapod Hardware Controller over SPI.  The process is modelled   *)
(* from its start: __init__ opens the bus, registers the subscription and  *)
(* the two timers and makes a first info check; main() then spins the node *)
(* on rclpy's single-threaded executor, which runs one callback at a time  *)
(* to completion.  Every SPI call (writebytes2, readbytes) is one step, so *)
(* that the order of operations on the bus can be stated.                  *)
(*                                                                         *)
(* hexapod_protocol (the frame catalogue, INFO_FRAME_LIST, one_leg_frame,  *)
(* split_to_integer_and_float_parts, check_info_frame) is imported by the  *)
(* server but its source is not at hand: those definitions follow the      *)
(* written specification and are marked so below.                          *)
(***************************************************************************)
EXTENDS Integers, Sequences, FiniteSets

\* ---------------------------------------------------------------- bounds

\* Exchanges that may be started on the bus in one run.
MaxExchanges == 4
\* Leg frames in one delivered LegFrames message.
MaxBatch == 2
\* Angles are whole multiples of 1/AngleUnit degree.
AngleUnit == 2

\* ------------------------------------------------- hexapod_protocol (spec)

FrameType == {"INFO", "ADC", "TEMPERATURE", "ONE_LEG"}

\* FrameType.<kind>.value: the frame-kind tag byte.
FrameTypeValue ==
    [k \in FrameType |->
        CASE k = "INFO" -> 1 [] k = "ADC" -> 2
          [] k = "TEMPERATURE" -> 3 [] k = "ONE_LEG" -> 4]

\* Servos per leg (joints 0, 1, 2 of _leg_frame_callback).
ServoCount == 3

\* Transmit length: the byte count of the kind's transmit payload.
FRAME_LENGTHS_TRANSMIT ==
    [k \in FrameType |->
        CASE k = "INFO" -> 2 [] k = "ADC" -> 2
          [] k = "TEMPERATURE" -> 2 [] k = "ONE_LEG" -> 1 + 3 * ServoCount]

\* Receive length: the byte count of the kind's response.
FRAME_LENGTHS_RECEIVE ==
    [k \in FrameType |->
        CASE k = "INFO" -> 4 [] k = "ADC" -> 5
          [] k = "TEMPERATURE" -> 4 [] k = "ONE_LEG" -> 1]

\* hexapod_protocol.__version__ as <<major, minor>>.
HexapodProtocolVersion == <<1, 1>>

\* The fixed INFO request.
INFO_FRAME_LIST == <<FRAME_LENGTHS_TRANSMIT["INFO"], FrameTypeValue["INFO"]>>

\* ------------------------------------------------------------------ state

Callbacks == {"info", "temp", "leg", "adc"}

VARIABLES
    phase,        \* "start", "construct", "spinning", "exited", "crashed"
    pc,           \* per callback: "idle", "announce", "payload", "read"
    bus,          \* every operation performed on the SPI bus, in order
    xid,          \* per callback: the exchange it is performing
    nextX,        \* exchanges started so far
    data,         \* per callback: the bytes of its last readbytes
    reports,      \* what get_logger() was given, in order
    published,    \* what _mcu_temperature_publisher was given, in order
    stdout,       \* what print() was given, in order
    legFrames,    \* _leg_frame_callback: frames not yet sent (head: current)
    legSplit,     \* the angles last handed to split_to_integer_and_float_parts
    legMsg,       \* message2 of the frame being sent
    fault,        \* the exception that ended the process, if any
    probe,        \* a function called on its own: its argument and result
    legQueue,     \* LegFrames messages received and not yet taken
    legBatch      \* _leg_frame_callback: msg.leg_frames while it runs

vars == <<phase, pc, bus, xid, nextX, data, reports, published, stdout,
          legFrames, legSplit, legMsg, fault, probe, legQueue, legBatch>>

NoFault == [kind |-> "none", during |-> "none", cb |-> "none"]

\* No function is being called on its own.
NoProbe == [fn |-> "none", arg |-> <<>>, out |-> "none"]


Init ==
    /\ phase = "start"
    /\ pc = [c \in Callbacks |-> "idle"]
    /\ bus = <<>>
    /\ xid = [c \in Callbacks |-> 0]
    /\ nextX = 0
    /\ data = [c \in Callbacks |-> <<>>]
    /\ reports = <<>>
    /\ published = <<>>
    /\ stdout = <<>>
    /\ legFrames = <<>>
    /\ legSplit = <<>>
    /\ legMsg = <<>>
    /\ fault = NoFault
    /\ probe = NoProbe
    /\ legQueue = <<>>
    /\ legBatch = <<>>

\* -------------------------------------------------------------- the bus

\* One operation on the bus, tagged with the exchange it belongs to.
BusOp(o, bytes, n, x, kind) ==
    [op |-> o, bytes |-> bytes, n |-> n, x |-> x, kind |-> kind]

\* _send_data with its two writes in the other order.
SendDataPayloadFirst(nbytes, bytes_to_be_send) == <<bytes_to_be_send, (<<nbytes>>)>>

\* _send_data: the byte strings it writes, in the order it writes them.
_send_data(nbytes, bytes_to_be_send) == <<(<<nbytes>>), bytes_to_be_send>>

\* An executor that starts a ready callback while another one is running.
ExecutorNeverBusy == TRUE

\* rclpy.spin(driver): the single-threaded executor takes the next ready
\* callback only when no callback is running.
ExecutorFree == \A c \in Callbacks : pc[c] = "idle"

\* The executor may start callback c.
Ready(c) == phase = "spinning" /\ ExecutorFree /\ pc[c] = "idle"

\* The handler of callback c returns; __init__ returns after its info check
\* and main() starts to spin.
Return(c) ==
    /\ pc' = [pc EXCEPT ![c] = "idle"]
    /\ phase' = IF phase = "construct" THEN "spinning" ELSE phase
    /\ fault' = fault

\* An exception leaves the handler of callback c: nothing catches it, it
\* leaves __init__ or rclpy.spin and main(), and the process ends.
Raise(kind, c) ==
    /\ phase' = "crashed"
    /\ fault' = [kind |-> kind, during |-> phase, cb |-> c]
    /\ pc' = pc

\* A server that stops using the bus once a poll was reported as an error.
RunningWhileCompatible ==
    /\ phase \in {"construct", "spinning"}
    /\ \A i \in 1..Len(reports) : reports[i].level # "error"

Running == phase \in {"construct", "spinning"}

RECURSIVE FramesIn(_)
\* The leg frames of a sequence of LegFrames messages.
FramesIn(queue) ==
    IF queue = <<>> THEN 0 ELSE Len(Head(queue)) + FramesIn(Tail(queue))

\* The exchanges started so far and those the work at hand will start: one
\* per handler about to announce and one per leg frame taken or received.
Committed ==
    nextX
    + Cardinality({c \in {"info", "temp", "adc"} : pc[c] = "announce"})
    + (IF pc["leg"] = "payload" THEN Len(legFrames) - 1 ELSE Len(legFrames))
    + FramesIn(legQueue)

\* First step of _send_data in callback c: writebytes2([nbytes]).
Announce(c, kind, sent) ==
    /\ Running /\ pc[c] = "announce"
    /\ bus' = Append(bus, BusOp("write", sent[1], Len(sent[1]), nextX + 1, kind))
    /\ nextX' = nextX + 1
    /\ xid' = [xid EXCEPT ![c] = nextX + 1]
    /\ pc' = [pc EXCEPT ![c] = "payload"]

\* Second step of _send_data in callback c: writebytes2(bytes_to_be_send).
Payload(c, kind, sent) ==
    /\ Running /\ pc[c] = "payload"
    /\ bus' = Append(bus, BusOp("write", sent[2], Len(sent[2]), xid[c], kind))

\* readbytes(n) in callback c: n bytes, whatever the device answers.
Read(c, kind, n, answer) ==
    /\ Running /\ pc[c] = "read"
    /\ Len(answer) = n
    /\ bus' = Append(bus, BusOp("read", <<>>, n, xid[c], kind))
    /\ data' = [data EXCEPT ![c] = answer]

\* A writebytes2 or readbytes of callback c fails: spidev raises, and
\* neither _send_data nor its callers catch.  (The first write of a leg
\* frame follows its encoding: leg_announce has that failure.)
bus_fault(c) ==
    /\ Running /\ pc[c] \in {"announce", "payload", "read"}
    /\ ~(c = "leg" /\ pc[c] = "announce")
    /\ Raise("io", c)
    /\ UNCHANGED <<bus, xid, nextX, data, probe, legQueue, reports, published, stdout,
                   legFrames, legBatch, legSplit, legMsg>>

\* ------------------------------------------------------------- __init__

\* The bytes a device may answer to an INFO request.
InfoResponses ==
    { <<m, FrameTypeValue["INFO"], major, minor>> :
        m \in {FRAME_LENGTHS_RECEIVE["INFO"], 0},
        major \in {1, 2}, minor \in {0, 1, 2} }

\* The except clause without its sys.exit(1): __init__ logs and goes on.
OpenFailedNoExit ==
    /\ reports' = Append(reports, [level |-> "fatal", what |-> "CannotOpenSPI"])
    /\ phase' = "construct"
    /\ fault' = [kind |-> "open", during |-> phase, cb |-> "none"]
    /\ pc' = [pc EXCEPT !["info"] = "announce"]

\* What __init__ does when spi.open raises: fatal log, sys.exit(1).
OpenFailed ==
    /\ reports' = Append(reports, [level |-> "fatal", what |-> "CannotOpenSPI"])
    /\ phase' = "exited"
    /\ fault' = [kind |-> "open", during |-> phase, cb |-> "none"]
    /\ pc' = pc

\* spi.open(0, 0) raises.
init_open_fails ==
    /\ phase = "start"
    /\ OpenFailed
    /\ UNCHANGED <<bus, xid, nextX, data, probe, legQueue, published, stdout,
                   legFrames, legBatch, legSplit, legMsg>>

\* An __init__ that returns without its call of get_hhc_info().
init_open_without_check ==
    /\ phase = "start"
    /\ phase' = "spinning"
    /\ UNCHANGED <<pc, bus, xid, nextX, data, probe, legQueue, reports, published,
                   stdout, legFrames, legBatch, legSplit, legMsg, fault>>

\* spi.open(0, 0) succeeds: the subscription, the timers and the publisher
\* are created, and __init__ calls get_hhc_info().
init_open_ok ==
    /\ phase = "start"
    /\ phase' = "construct"
    /\ pc' = [pc EXCEPT !["info"] = "announce"]
    /\ UNCHANGED <<bus, xid, nextX, data, probe, legQueue, reports, published, stdout,
                   legFrames, legBatch, legSplit, legMsg, fault>>

\* --------------------------------------------------------- get_hhc_info

\* check_info_frame comparing the minor versions before the major ones.
CheckInfoFrameMinorFirst(local, d) ==
    IF \/ Len(d) # FRAME_LENGTHS_RECEIVE["INFO"]
       \/ d[1] # FRAME_LENGTHS_RECEIVE["INFO"]
       \/ d[2] # FrameTypeValue["INFO"]
    THEN "MalformedHexapodInfoFrameError"
    ELSE IF d[4] < local[2] THEN "OldHexapodProtocolVersionWarning"
    ELSE IF d[4] > local[2] THEN "NewHexapodProtocolVersionWarning"
    ELSE IF d[3] # local[1] THEN "IncompatibleHexapodProtocolVersionError"
    ELSE "ok"

\* check_info_frame: "ok", or the name of the exception it raises.
check_info_frame(local, d) ==
    IF \/ Len(d) # FRAME_LENGTHS_RECEIVE["INFO"]
       \/ d[1] # FRAME_LENGTHS_RECEIVE["INFO"]
       \/ d[2] # FrameTypeValue["INFO"]
    THEN "MalformedHexapodInfoFrameError"
    ELSE IF d[3] # local[1] THEN "IncompatibleHexapodProtocolVersionError"
    ELSE IF d[4] < local[2] THEN "OldHexapodProtocolVersionWarning"
    ELSE IF d[4] > local[2] THEN "NewHexapodProtocolVersionWarning"
    ELSE "ok"

\* The try/except with the version warnings left out of its second clause
\* and the malformed frame logged as a warning.
InfoLogSlip(outcome) ==
    IF outcome = "ok"
    THEN [caught |-> TRUE, level |-> "info", what |-> "ok"]
    ELSE IF outcome = "IncompatibleHexapodProtocolVersionError"
    THEN [caught |-> TRUE, level |-> "error", what |-> outcome]
    ELSE IF outcome = "MalformedHexapodInfoFrameError"
    THEN [caught |-> TRUE, level |-> "warning", what |-> outcome]
    ELSE [caught |-> FALSE, level |-> "none", what |-> outcome]

\* The try/except of get_hhc_info: what is logged for an outcome of
\* check_info_frame, and whether the outcome is handled at all.
InfoLog(outcome) ==
    IF outcome = "ok"
    THEN [caught |-> TRUE, level |-> "info", what |-> "ok"]
    ELSE IF outcome \in {"IncompatibleHexapodProtocolVersionError",
                         "MalformedHexapodInfoFrameError"}
    THEN [caught |-> TRUE, level |-> "error", what |-> outcome]
    ELSE IF outcome \in {"OldHexapodProtocolVersionWarning",
                         "NewHexapodProtocolVersionWarning"}
    THEN [caught |-> TRUE, level |-> "warning", what |-> outcome]
    ELSE [caught |-> FALSE, level |-> "none", what |-> outcome]

InfoRequest == _send_data(FRAME_LENGTHS_TRANSMIT["INFO"], INFO_FRAME_LIST)

\* The info timer fires and the executor starts get_hhc_info.
info_tick ==
    /\ Ready("info") /\ Committed < MaxExchanges
    /\ pc' = [pc EXCEPT !["info"] = "announce"]
    /\ UNCHANGED <<phase, bus, xid, nextX, data, probe, legQueue, reports, published, stdout,
                   legFrames, legBatch, legSplit, legMsg, fault>>

hhc_info_announce ==
    /\ Announce("info", "INFO", InfoRequest)
    /\ UNCHANGED <<phase, data, probe, legQueue, reports, published, stdout,
                   legFrames, legBatch, legSplit, legMsg, fault>>

hhc_info_payload ==
    /\ Payload("info", "INFO", InfoRequest)
    /\ pc' = [pc EXCEPT !["info"] = "read"]
    /\ UNCHANGED <<phase, xid, nextX, data, probe, legQueue, reports, published, stdout,
                   legFrames, legBatch, legSplit, legMsg, fault>>

\* readbytes, then check_info_frame and the log entry of its outcome.
hhc_info_read ==
    \E answer \in InfoResponses :
        /\ Read("info", "INFO", FRAME_LENGTHS_RECEIVE["INFO"], answer)
        /\ LET log == InfoLog(check_info_frame(HexapodProtocolVersion, answer))
           IN  IF log.caught
               THEN /\ reports' = Append(reports,
                                     [level |-> log.level, what |-> log.what])
                    /\ Return("info")
               ELSE /\ reports' = reports
                    /\ Raise(log.what, "info")
        /\ UNCHANGED <<probe, legQueue, xid, nextX, published, stdout,
                       legFrames, legBatch, legSplit, legMsg>>

get_hhc_info == hhc_info_announce \/ hhc_info_payload \/ hhc_info_read

\* ------------------------------------------------ _convert_bytes_to_value

RECURSIVE BitOr(_, _)
\* Python's a | b on non-negative integers.
BitOr(a, b) ==
    IF a = 0 THEN b
    ELSE IF b = 0 THEN a
    ELSE (IF a % 2 = 1 \/ b % 2 = 1 THEN 1 ELSE 0)
         + 2 * BitOr(a \div 2, b \div 2)

RECURSIVE ConvertLoopLittleEndian(_, _, _)
\* The loop with the first byte taken as the least significant one.
ConvertLoopLittleEndian(datas, i, value) ==
    IF i > Len(datas) THEN value
    ELSE ConvertLoopLittleEndian(datas, i + 1,
                                 BitOr(value, datas[i] * 2 ^ ((i - 1) * 8)))

RECURSIVE ConvertLoop(_, _, _)
\* The for loop of _convert_bytes_to_value from its i-th element (1-based)
\* on: value |= data << (len(datas) - i - 1) * 8, with i counted from 0.
ConvertLoop(datas, i, value) ==
    IF i > Len(datas) THEN value
    ELSE ConvertLoop(datas, i + 1,
                     BitOr(value, datas[i] * 2 ^ ((Len(datas) - i) * 8)))

\* The conversion with every byte shifted one bit short of its place.
ConvertBytesOverlapping(datas) ==
    LET RECURSIVE Loop(_, _)
        Loop(i, value) ==
            IF i > Len(datas) THEN value
            ELSE Loop(i + 1, BitOr(value, datas[i] * 2 ^ ((Len(datas) - i) * 7)))
    IN  Loop(1, 0)

_convert_bytes_to_value(datas) == ConvertLoop(datas, 1, 0)

\* ------------------------------------------------- get_temperature_info

\* The bytes a device may answer to a TEMPERATURE request.
TempResponses ==
    { <<FRAME_LENGTHS_RECEIVE["TEMPERATURE"], FrameTypeValue["TEMPERATURE"], 91, 160>>,
      <<FRAME_LENGTHS_RECEIVE["TEMPERATURE"], FrameTypeValue["TEMPERATURE"], 0, 1>>,
      <<1, 1, 1, 0>> }

\* The temperature request with a byte more than its announced length.
TemperatureFrameLong ==
    <<FRAME_LENGTHS_TRANSMIT["TEMPERATURE"], FrameTypeValue["TEMPERATURE"], 0>>

\* The payload list get_temperature_info builds.
TemperatureFrame ==
    <<FRAME_LENGTHS_TRANSMIT["TEMPERATURE"], FrameTypeValue["TEMPERATURE"]>>

TemperatureRequest ==
    _send_data(FRAME_LENGTHS_TRANSMIT["TEMPERATURE"], TemperatureFrame)

\* The Temperature message with the two header bytes taken into the count.
TemperatureMsgWithHeader(answer) ==
    [temperature |-> <<_convert_bytes_to_value(answer), 1000>>,
     variance |-> 0]

\* The Temperature message of an answer: temperature is the raw count over
\* 1000, kept as <<numerator, denominator>>.
TemperatureMsg(answer) ==
    [temperature |->
        <<_convert_bytes_to_value(SubSeq(answer, 3, Len(answer))), 1000>>,
     variance |-> 0]

\* The temperature timer fires and the executor starts the handler.
temp_tick ==
    /\ Ready("temp") /\ Committed < MaxExchanges
    /\ pc' = [pc EXCEPT !["temp"] = "announce"]
    /\ UNCHANGED <<phase, bus, xid, nextX, data, probe, legQueue, reports, published, stdout,
                   legFrames, legBatch, legSplit, legMsg, fault>>

temperature_announce ==
    /\ Announce("temp", "TEMPERATURE", TemperatureRequest)
    /\ UNCHANGED <<phase, data, probe, legQueue, reports, published, stdout,
                   legFrames, legBatch, legSplit, legMsg, fault>>

temperature_payload ==
    /\ Payload("temp", "TEMPERATURE", TemperatureRequest)
    /\ pc' = [pc EXCEPT !["temp"] = "read"]
    /\ UNCHANGED <<phase, xid, nextX, data, probe, legQueue, reports, published, stdout,
                   legFrames, legBatch, legSplit, legMsg, fault>>

\* readbytes, then the conversion and the publish.
temperature_read ==
    \E answer \in TempResponses :
        /\ Read("temp", "TEMPERATURE", FRAME_LENGTHS_RECEIVE["TEMPERATURE"], answer)
        /\ published' = Append(published, TemperatureMsg(answer))
        /\ Return("temp")
        /\ UNCHANGED <<probe, legQueue, xid, nextX, reports, stdout,
                       legFrames, legBatch, legSplit, legMsg>>

get_temperature_info ==
    temperature_announce \/ temperature_payload \/ temperature_read

\* --------------------------------------------------------- get_adc_info

\* The bytes a device may answer to an ADC request.
AdcResponses ==
    { <<FRAME_LENGTHS_RECEIVE["ADC"], FrameTypeValue["ADC"], 0, 8, 0>>,
      <<FRAME_LENGTHS_RECEIVE["ADC"], FrameTypeValue["ADC"], 7, 1, 1>> }

\* The payload list get_adc_info builds.
AdcFrame == <<FRAME_LENGTHS_TRANSMIT["ADC"], FrameTypeValue["ADC"]>>

AdcRequest == _send_data(FRAME_LENGTHS_TRANSMIT["ADC"], AdcFrame)

\* (raw_voltage / 4096) * 3.3, kept as <<numerator, denominator>>.
AdcVoltage(answer) ==
    <<_convert_bytes_to_value(SubSeq(answer, 4, Len(answer))) * 33, 40960>>

\* get_adc_info is called.  No timer or subscription of __init__ does so:
\* this step belongs to SpecApi only, where the method is called directly.
adc_call ==
    /\ Ready("adc") /\ Committed < MaxExchanges
    /\ pc' = [pc EXCEPT !["adc"] = "announce"]
    /\ UNCHANGED <<phase, bus, xid, nextX, data, probe, legQueue, reports, published, stdout,
                   legFrames, legBatch, legSplit, legMsg, fault>>

adc_announce ==
    /\ Announce("adc", "ADC", AdcRequest)
    /\ UNCHANGED <<phase, data, probe, legQueue, reports, published, stdout,
                   legFrames, legBatch, legSplit, legMsg, fault>>

adc_payload ==
    /\ Payload("adc", "ADC", AdcRequest)
    /\ pc' = [pc EXCEPT !["adc"] = "read"]
    /\ UNCHANGED <<phase, xid, nextX, data, probe, legQueue, reports, published, stdout,
                   legFrames, legBatch, legSplit, legMsg, fault>>

\* readbytes, then the conversion and the print.
adc_read ==
    \E answer \in AdcResponses :
        /\ Read("adc", "ADC", FRAME_LENGTHS_RECEIVE["ADC"], answer)
        /\ stdout' = Append(stdout, AdcVoltage(answer))
        /\ Return("adc")
        /\ UNCHANGED <<probe, legQueue, xid, nextX, reports, published,
                       legFrames, legBatch, legSplit, legMsg>>

get_adc_info == adc_announce \/ adc_payload \/ adc_read

\* -------------------------------------------------- _leg_frame_callback

\* n degrees in the unit of the model's angles.
Deg(n) == n * AngleUnit

Abs(n) == IF n < 0 THEN -n ELSE n

Min(a, b) == IF a < b THEN a ELSE b

\* split_to_integer_and_float_parts: the integer part truncated toward
\* zero, and round(|angle - integer part| * 256) clamped to 0..255.
split_to_integer_and_float_parts(angle) ==
    LET whole == Abs(angle) \div AngleUnit
        rest  == Abs(angle) % AngleUnit
    IN  <<IF angle < 0 THEN -whole ELSE whole,
          Min(255, (2 * rest * 256 + AngleUnit) \div (2 * AngleUnit))>>

\* one_leg_frame: the payload [leg id, opcodes, integer parts, fractional
\* parts], refused unless every sequence has one element per servo.
one_leg_frame(leg_id, servo_op_codes, angle_int_parts, angle_float_parts) ==
    IF /\ Len(servo_op_codes) = ServoCount
       /\ Len(angle_int_parts) = ServoCount
       /\ Len(angle_float_parts) = ServoCount
    THEN [ok |-> TRUE,
          frame |-> <<leg_id>> \o servo_op_codes \o angle_int_parts
                    \o angle_float_parts]
    ELSE [ok |-> FALSE, frame |-> <<>>]

\* The translation with the rules of joints 1 and 2 exchanged.
KinematicsToServoSwapped(angles) ==
    [i \in 1..Len(angles) |->
        IF i = 1 THEN angles[1] + Deg(90)
        ELSE IF i = 2 THEN angles[2] * (-1)
        ELSE IF i = 3 THEN angles[3] + Deg(90)
        ELSE angles[i]]

\* Translation from kinematics ranges to servo ranges, for a list of at
\* least three angles: angles[0] += 90, angles[1] += 90, angles[2] *= -1.
KinematicsToServo(angles) ==
    [i \in 1..Len(angles) |->
        IF i = 1 THEN angles[1] + Deg(90)
        ELSE IF i = 2 THEN angles[2] + Deg(90)
        ELSE IF i = 3 THEN angles[3] * (-1)
        ELSE angles[i]]

\* The loop body when nothing checks the lengths: the first three opcodes
\* and angles are encoded (a missing one as 0) and the rest is dropped.
LegEncodeUnchecked(frame) ==
    LET at(seq, i) == IF i <= Len(seq) THEN seq[i] ELSE 0
        servo == <<at(frame.servo_angles, 1) + Deg(90),
                   at(frame.servo_angles, 2) + Deg(90),
                   at(frame.servo_angles, 3) * (-1)>>
        parts == [i \in 1..3 |-> split_to_integer_and_float_parts(servo[i])]
    IN  [raised |-> "none", split |-> servo,
         msg |-> <<frame.leg_nb>>
                 \o [i \in 1..3 |-> at(frame.servo_op_codes, i)]
                 \o [i \in 1..3 |-> parts[i][1]]
                 \o [i \in 1..3 |-> parts[i][2]]]

\* The body of the for loop up to one_leg_frame, for one frame: the
\* exception it ends with ("none": it does not), the angles it hands to
\* the split, and message2.
LegEncode(frame) ==
    IF Len(frame.servo_angles) < 3
    THEN [raised |-> "IndexError", split |-> <<>>, msg |-> <<>>]
    ELSE LET servo == KinematicsToServo(frame.servo_angles)
             parts == [i \in 1..Len(servo) |->
                          split_to_integer_and_float_parts(servo[i])]
             m     == one_leg_frame(frame.leg_nb, frame.servo_op_codes,
                                    [i \in 1..Len(servo) |-> parts[i][1]],
                                    [i \in 1..Len(servo) |-> parts[i][2]])
         IN  [raised |-> IF m.ok THEN "none" ELSE "EncodingPreconditionError",
              split |-> servo, msg |-> m.frame]

\* The leg frames a LegFrames message may carry.
LegFrameSamples ==
    { [leg_nb |-> 2, servo_op_codes |-> <<1, 1, 1>>,
       servo_angles |-> <<Deg(10), Deg(-20), Deg(30)>>],
      [leg_nb |-> 1, servo_op_codes |-> <<1, 2, 1>>,
       servo_angles |-> <<1, -1, Deg(-45) - 1>>],
      [leg_nb |-> 1, servo_op_codes |-> <<1, 1, 1>>,
       servo_angles |-> <<Deg(10), Deg(20)>>],
      [leg_nb |-> 3, servo_op_codes |-> <<1, 1, 1>>,
       servo_angles |-> <<Deg(10), Deg(20), Deg(30), Deg(40)>>],
      [leg_nb |-> 4, servo_op_codes |-> <<1, 1>>,
       servo_angles |-> <<Deg(0), Deg(5), Deg(-5)>>] }

LegBatches == UNION { [1..n -> LegFrameSamples] : n \in 0..MaxBatch }

\* A LegFrames message is delivered and the executor starts the callback;
\* with no frame in it the for loop ends at once.
leg_deliver ==
    \E batch \in LegBatches :
        /\ Ready("leg") /\ nextX + Len(batch) <= MaxExchanges
        /\ legFrames' = batch
        /\ legBatch' = batch
        /\ pc' = [pc EXCEPT !["leg"] = IF batch = <<>> THEN "idle" ELSE "announce"]
        /\ UNCHANGED <<phase, bus, xid, nextX, data, probe, legQueue, reports, published,
                       stdout, legSplit, legMsg, fault>>

\* The loop body run on the last frame left instead of the next one.
leg_announce_last_first ==
    /\ Running /\ pc["leg"] = "announce"
    /\ LET e == LegEncode(legFrames[Len(legFrames)])
       IN  /\ legSplit' = e.split
           /\ legMsg' = e.msg
           /\ IF e.raised = "none"
              THEN \/ /\ Announce("leg", "ONE_LEG",
                            _send_data(FRAME_LENGTHS_TRANSMIT["ONE_LEG"], e.msg))
                      /\ UNCHANGED <<phase, fault>>
                   \/ /\ Raise("io", "leg")
                      /\ UNCHANGED <<bus, xid, nextX>>
              ELSE /\ Raise(e.raised, "leg")
                   /\ UNCHANGED <<bus, xid, nextX>>
    /\ UNCHANGED <<data, probe, legQueue, reports, published, stdout, legFrames, legBatch>>

\* One pass of the loop body for the frame at the head: the translation,
\* the splits and one_leg_frame, then the first write of _send_data.
leg_announce ==
    /\ Running /\ pc["leg"] = "announce"
    /\ LET e == LegEncode(Head(legFrames))
       IN  /\ legSplit' = e.split
           /\ legMsg' = e.msg
           /\ IF e.raised = "none"
              THEN \/ /\ Announce("leg", "ONE_LEG",
                            _send_data(FRAME_LENGTHS_TRANSMIT["ONE_LEG"], e.msg))
                      /\ UNCHANGED <<phase, fault>>
                   \/ /\ Raise("io", "leg")
                      /\ UNCHANGED <<bus, xid, nextX>>
              ELSE /\ Raise(e.raised, "leg")
                   /\ UNCHANGED <<bus, xid, nextX>>
    /\ UNCHANGED <<data, probe, legQueue, reports, published, stdout, legFrames, legBatch>>

\* The second write followed by a read of the OneLeg receive length.
leg_payload_and_read ==
    /\ Running /\ pc["leg"] = "payload"
    /\ bus' = bus \o <<BusOp("write", legMsg, Len(legMsg), xid["leg"], "ONE_LEG"),
                       BusOp("read", <<>>, FRAME_LENGTHS_RECEIVE["ONE_LEG"],
                             xid["leg"], "ONE_LEG")>>
    /\ legFrames' = Tail(legFrames)
    /\ IF Tail(legFrames) = <<>>
       THEN /\ Return("leg")
            /\ legSplit' = <<>>
            /\ legMsg' = <<>>
            /\ legBatch' = <<>>
       ELSE /\ pc' = [pc EXCEPT !["leg"] = "announce"]
            /\ UNCHANGED <<phase, fault, legSplit, legMsg, legBatch>>
    /\ UNCHANGED <<xid, nextX, data, probe, legQueue, reports, published, stdout>>

\* The second write of _send_data, then the next frame or the return.
leg_payload ==
    /\ Payload("leg", "ONE_LEG",
               _send_data(FRAME_LENGTHS_TRANSMIT["ONE_LEG"], legMsg))
    /\ legFrames' = Tail(legFrames)
    /\ IF Tail(legFrames) = <<>>
       THEN /\ Return("leg")
            /\ legSplit' = <<>>
            /\ legMsg' = <<>>
            /\ legBatch' = <<>>
       ELSE /\ pc' = [pc EXCEPT !["leg"] = "announce"]
            /\ UNCHANGED <<phase, fault, legSplit, legMsg, legBatch>>
    /\ UNCHANGED <<xid, nextX, data, probe, legQueue, reports, published, stdout>>

_leg_frame_callback == leg_announce \/ leg_payload

\* ----------------------------------------------- the subscription queue

\* Messages the model lets wait in the subscription's queue (its depth is
\* 10, line 38).
MaxQueued == 2

\* A LegFrames message with at least one frame reaches the subscription,
\* whatever the executor is doing, and waits there.
leg_arrive ==
    \E batch \in LegBatches \ {<<>>} :
        /\ Running /\ Len(legQueue) < MaxQueued
        /\ Committed + Len(batch) <= MaxExchanges
        /\ legQueue' = Append(legQueue, batch)
        /\ UNCHANGED <<phase, pc, bus, xid, nextX, data, probe, reports,
                       published, stdout, legFrames, legBatch, legSplit, legMsg, fault>>

\* The executor takes the oldest waiting message and starts the callback.
leg_take ==
    /\ Ready("leg") /\ legQueue # <<>>
    /\ legFrames' = Head(legQueue)
    /\ legBatch' = Head(legQueue)
    /\ legQueue' = Tail(legQueue)
    /\ pc' = [pc EXCEPT !["leg"] =
                 IF Head(legQueue) = <<>> THEN "idle" ELSE "announce"]
    /\ UNCHANGED <<phase, bus, xid, nextX, data, probe, reports, published,
                   stdout, legSplit, legMsg, fault>>

\* --------------------------------------------------------- the process

\* __init__, then rclpy.spin on the node.
\* The steps of a server whose __init__ also creates a timer for
\* get_adc_info.
NextWithAdcTimer ==
    \/ init_open_ok
    \/ init_open_fails
    \/ info_tick
    \/ get_hhc_info
    \/ temp_tick
    \/ get_temperature_info
    \/ adc_call
    \/ get_adc_info
    \/ leg_deliver
    \/ _leg_frame_callback
    \/ \E c \in Callbacks : bus_fault(c)

Next ==
    \/ init_open_ok
    \/ init_open_fails
    \/ info_tick
    \/ get_hhc_info
    \/ temp_tick
    \/ get_temperature_info
    \/ leg_deliver
    \/ _leg_frame_callback
    \/ \E c \in Callbacks : bus_fault(c)

Spec == Init /\ [][Next]_vars

\* The process with the messages waiting in the subscription's queue while
\* a callback runs.
NextQueued ==
    \/ init_open_ok
    \/ init_open_fails
    \/ info_tick
    \/ get_hhc_info
    \/ temp_tick
    \/ get_temperature_info
    \/ leg_arrive
    \/ leg_take
    \/ _leg_frame_callback
    \/ \E c \in Callbacks : bus_fault(c)

\* The executor serves every ready entity of a wait before it waits again,
\* so a waiting message is taken; a started handler runs on.
Fairness ==
    /\ SF_vars(leg_take)
    /\ WF_vars(_leg_frame_callback)
    /\ WF_vars(get_hhc_info)
    /\ WF_vars(get_temperature_info)

SpecFair == Init /\ [][NextQueued]_vars /\ Fairness

\* The same, with get_adc_info also called from the executor's thread.
NextApi ==
    \/ Next
    \/ adc_call
    \/ get_adc_info

SpecApi == Init /\ [][NextApi]_vars

\* ------------------------------------------- check_info_frame on its own

\* The local versions and the received frames check_info_frame is tried on:
\* every frame of up to one byte more than the INFO receive length.
ProbeVersions == {<<1, 0>>, <<1, 1>>, <<2, 1>>}
ProbeBytes == {0, FrameTypeValue["INFO"], 2, FRAME_LENGTHS_RECEIVE["INFO"]}
ProbeFrames ==
    UNION { [1..n -> ProbeBytes] : n \in 0..(FRAME_LENGTHS_RECEIVE["INFO"] + 1) }

InitValidator ==
    /\ phase = "start"
    /\ pc = [c \in Callbacks |-> "idle"]
    /\ bus = <<>>
    /\ xid = [c \in Callbacks |-> 0]
    /\ nextX = 0
    /\ data = [c \in Callbacks |-> <<>>]
    /\ reports = <<>>
    /\ published = <<>>
    /\ stdout = <<>>
    /\ legFrames = <<>>
    /\ legSplit = <<>>
    /\ legMsg = <<>>
    /\ fault = NoFault
    /\ legQueue = <<>>
    /\ legBatch = <<>>
    /\ probe \in { [fn |-> "check_info_frame", arg |-> <<v, d>>, out |-> "none"] :
                      v \in ProbeVersions, d \in ProbeFrames }

\* check_info_frame(data) is called with the local version of probe.arg.
validator_call ==
    /\ probe.fn = "check_info_frame" /\ probe.out = "none"
    /\ probe' = [probe EXCEPT !.out = check_info_frame(probe.arg[1], probe.arg[2])]
    /\ UNCHANGED <<phase, pc, bus, xid, nextX, data, reports, published,
                   stdout, legFrames, legBatch, legSplit, legMsg, fault, legQueue>>

NextValidator == validator_call

SpecValidator == InitValidator /\ [][NextValidator]_vars

\* ------------------------------------- _convert_bytes_to_value on its own

\* The longest byte sequence converted, and the byte values tried.
MaxBytes == 2
ConvertBytes == {0, 1, 2, 91, 127, 128, 160, 255}
ConvertInputs == UNION { [1..n -> ConvertBytes] : n \in 0..MaxBytes }

InitConverter ==
    /\ phase = "start"
    /\ pc = [c \in Callbacks |-> "idle"]
    /\ bus = <<>>
    /\ xid = [c \in Callbacks |-> 0]
    /\ nextX = 0
    /\ data = [c \in Callbacks |-> <<>>]
    /\ reports = <<>>
    /\ published = <<>>
    /\ stdout = <<>>
    /\ legFrames = <<>>
    /\ legSplit = <<>>
    /\ legMsg = <<>>
    /\ fault = NoFault
    /\ legQueue = <<>>
    /\ legBatch = <<>>
    /\ probe \in { [fn |-> "_convert_bytes_to_value", arg |-> b, out |-> <<>>] :
                      b \in ConvertInputs }

\* _convert_bytes_to_value(probe.arg) is called; probe.out holds what it
\* returned.
converter_call ==
    /\ probe.fn = "_convert_bytes_to_value" /\ probe.out = <<>>
    /\ probe' = [probe EXCEPT !.out = <<_convert_bytes_to_value(probe.arg)>>]
    /\ UNCHANGED <<phase, pc, bus, xid, nextX, data, reports, published,
                   stdout, legFrames, legBatch, legSplit, legMsg, fault, legQueue>>

NextConverter == converter_call

SpecConverter == InitConverter /\ [][NextConverter]_vars

\* ============================================================== claims

\* The operations of exchange x, in the order they reached the bus.
ExchangeOps(x) == SelectSeq(bus, LAMBDA o : o.x = x)

\* Exchange x is over: no callback is between its first write and its end.
Over(x) == ~ \E c \in Callbacks : xid[c] = x /\ pc[c] \in {"payload", "read"}

\* The first operations of exchange x are the announcement of kind k's
\* transmit length in one byte, then a second write.
WritesInOrder(ops) ==
    /\ \A i \in 1..Len(ops) : ops[i].kind = ops[1].kind
    /\ ops[1].op = "write"
    /\ ops[1].bytes = <<FRAME_LENGTHS_TRANSMIT[ops[1].kind]>>
    /\ Len(ops) >= 2 => ops[2].op = "write"

\* The third operation, if any, is a read of kind k's receive length.
ReadsThird(ops) ==
    /\ Len(ops) <= 3
    /\ Len(ops) = 3 =>
          /\ ops[3].op = "read"
          /\ ops[3].n = FRAME_LENGTHS_RECEIVE[ops[1].kind]

\* C1 as stated: every exchange, of every frame kind, is the write of the
\* one-byte transmit length, the write of the payload and the read of the
\* receive length, in this order and with no step left out.
C1_EveryKindWritesWritesReads ==
    \A x \in 1..nextX :
        LET ops == ExchangeOps(x)
        IN  /\ WritesInOrder(ops)
            /\ ReadsThird(ops)
            /\ Over(x) => Len(ops) = 3

\* C1 as amended: an Info, Adc or Temperature exchange is the write of the
\* one-byte transmit length, the write of the payload and the read of the
\* receive length, in this order and with no step left out; a OneLeg
\* exchange is the two writes only, and nothing is read.
C1_ExchangeShape ==
    \A x \in 1..nextX :
        LET ops == ExchangeOps(x)
        IN  /\ WritesInOrder(ops)
            /\ ReadsThird(ops)
            /\ IF ops[1].kind = "ONE_LEG"
               THEN Len(ops) <= 2 /\ (Over(x) => Len(ops) = 2)
               ELSE Over(x) => Len(ops) = 3

\* Exchange x is over and was of kind k.
Done(x, k) == x \in 1..nextX /\ Over(x) /\ ExchangeOps(x)[1].kind = k

\* An exchange of each of the four kinds has been completed.
C1_Witness ==
    /\ phase = "spinning"
    /\ \A k \in FrameType : \E x \in 1..nextX : Done(x, k)

\* C2: at most one exchange is in flight at any time, and the operations
\* of one exchange are never interleaved with an operation of another one:
\* between two operations of the same exchange the bus carries only
\* operations of that exchange.
C2_OneExchangeInFlight ==
    /\ Cardinality({c \in Callbacks : pc[c] \in {"payload", "read"}}) <= 1
    /\ Cardinality({c \in Callbacks : pc[c] # "idle"}) <= 1
    /\ \A i \in 1..Len(bus) : \A j \in i..Len(bus) :
          bus[i].x = bus[j].x =>
              \A k \in i..j : bus[k].x = bus[i].x

\* The start-up info check, a temperature poll, a leg command and a later
\* info poll have all used the bus in one run.
C2_Witness ==
    /\ phase = "spinning"
    /\ Done(1, "INFO")
    /\ \E x \in 2..nextX : Done(x, "INFO")
    /\ \E x \in 2..nextX : Done(x, "TEMPERATURE")
    /\ \E x \in 2..nextX : Done(x, "ONE_LEG")

\* C3: every payload write is immediately preceded on the bus by the
\* one-byte announcement of its own exchange, and the number of bytes it
\* writes is the value of that byte.
C3_PayloadLengthIsAnnounced ==
    \A i \in 1..Len(bus) :
        (bus[i].op = "write" /\ ExchangeOps(bus[i].x)[1] # bus[i]) =>
            /\ i > 1
            /\ bus[i - 1].x = bus[i].x
            /\ bus[i - 1].op = "write"
            /\ Len(bus[i - 1].bytes) = 1
            /\ bus[i].n = bus[i - 1].bytes[1]
            /\ Len(bus[i].bytes) = bus[i - 1].bytes[1]

\* The two-byte Adc and Temperature requests and a OneLeg payload built
\* from a leg command have been written.
C3_Witness ==
    /\ \E i \in 1..Len(bus) :
          bus[i].kind = "ADC" /\ bus[i].bytes = AdcFrame /\ bus[i].n = 2
    /\ \E i \in 1..Len(bus) :
          /\ bus[i].kind = "TEMPERATURE"
          /\ bus[i].bytes = TemperatureFrame /\ bus[i].n = 2
    /\ \E i \in 1..Len(bus) :
          bus[i].kind = "ONE_LEG" /\ bus[i].n = 1 + 3 * ServoCount

\* A leg frame with exactly one opcode and one angle per servo.
WellFormed(frame) ==
    Len(frame.servo_op_codes) = 3 /\ Len(frame.servo_angles) = 3

\* C4: when the loop reaches a leg frame whose opcodes and angles do not
\* both have exactly 3 elements, its pass through the loop body writes
\* nothing to the bus and starts no exchange: it ends with an exception,
\* and the frame is neither cut to three elements nor sent with its extra
\* ones.
C4_MalformedFrameNeverSent ==
    [][ (Running /\ pc["leg"] = "announce" /\ ~WellFormed(Head(legFrames)))
            => /\ bus' = bus
               /\ nextX' = nextX
               /\ pc'["leg"] # "payload"
               /\ phase' = "crashed"
               /\ fault'.kind \in {"IndexError", "EncodingPreconditionError"} ]_vars

\* A frame with a fourth angle was refused after the frame before it in
\* the same message had been sent; so was a frame with two angles.
C4_Witness ==
    /\ phase = "crashed" /\ fault.cb = "leg"
    /\ fault.kind = "EncodingPreconditionError"
    /\ Len(Head(legFrames).servo_angles) = 4
    /\ \E x \in 1..nextX : Done(x, "ONE_LEG")
    /\ bus[Len(bus)].op = "write" /\ bus[Len(bus)].n = 1 + 3 * ServoCount

\* C5 as stated: an I/O failure of a bus write or read after start-up is
\* reported and loses only its exchange; the loop goes on spinning.
C5_IoFailureLeavesLoopRunning ==
    (fault.kind = "io" /\ fault.during = "spinning") =>
        /\ phase = "spinning"
        /\ \E i \in 1..Len(reports) : reports[i].what = "io"

\* The log level the classification of an INFO answer is to be reported at.
LevelOf(what) ==
    CASE what = "ok" -> "info"
      [] what \in {"MalformedHexapodInfoFrameError",
                   "IncompatibleHexapodProtocolVersionError"} -> "error"
      [] what \in {"OldHexapodProtocolVersionWarning",
                   "NewHexapodProtocolVersionWarning"} -> "warning"
      [] OTHER -> "none"

Classifications ==
    {"ok", "MalformedHexapodInfoFrameError",
     "IncompatibleHexapodProtocolVersionError",
     "OldHexapodProtocolVersionWarning", "NewHexapodProtocolVersionWarning"}

\* The log entries that report a classification, and the INFO reads.
ClassReports == SelectSeq(reports, LAMBDA r : r.level # "fatal")
InfoReads == SelectSeq(bus, LAMBDA o : o.op = "read" /\ o.kind = "INFO")

\* C6: every info poll that has read its answer has logged exactly one
\* classification (one entry per INFO read), at error level for Malformed
\* and VersionIncompatible, at warning level for VersionOlder and
\* VersionNewer and at info level for Valid, and has returned: no
\* classification leaves get_hhc_info as an exception.
C6_OneReportPerPoll ==
    /\ Len(ClassReports) = Len(InfoReads)
    /\ \A i \in 1..Len(ClassReports) :
          /\ ClassReports[i].what \in Classifications
          /\ ClassReports[i].level = LevelOf(ClassReports[i].what)
    /\ fault.kind \notin Classifications
    /\ (pc["info"] # "idle" /\ pc["info"] # "announce") =>
          Len(ExchangeOps(xid["info"])) < 3

\* Three polls of one run were reported at error, warning and info level,
\* and the loop is still spinning with get_hhc_info returned.
C6_Witness ==
    /\ phase = "spinning" /\ pc["info"] = "idle"
    /\ Len(ClassReports) = 3
    /\ ClassReports[1] = [level |-> "error",
                          what |-> "MalformedHexapodInfoFrameError"]
    /\ ClassReports[2].level = "warning"
    /\ ClassReports[3] = [level |-> "info", what |-> "ok"]

\* The splits of the frame at the head of legFrames have been made.
SplitsMade ==
    /\ legFrames # <<>>
    /\ \/ pc["leg"] = "payload"
       \/ phase = "crashed" /\ fault.cb = "leg"
          /\ fault.kind = "EncodingPreconditionError"

\* C8: for a leg frame with three kinematic angles (a0, a1, a2), of any
\* leg, the angles handed to the fixed-point split are exactly
\* (a0 + 90, a1 + 90, -a2), in this order.
C8_ServoAngles ==
    (SplitsMade /\ Len(Head(legFrames).servo_angles) = 3) =>
        LET a == Head(legFrames).servo_angles
        IN  legSplit = <<a[1] + Deg(90), a[2] + Deg(90), 0 - a[3]>>

\* Leg 2 with (10, -20, 30) degrees had (100, 70, -30) handed to the split.
C8_Witness ==
    /\ SplitsMade
    /\ Head(legFrames).leg_nb = 2
    /\ Head(legFrames).servo_angles = <<Deg(10), Deg(-20), Deg(30)>>
    /\ legSplit = <<Deg(100), Deg(70), Deg(-30)>>

\* C9: a OneLeg exchange is the length write and the payload write only;
\* nothing is read for it, and what follows its payload write on the bus
\* is the one-byte length announcement of another exchange.
C9_FireAndForget ==
    \A i \in 1..Len(bus) :
        bus[i].kind = "ONE_LEG" =>
            /\ bus[i].op = "write"
            /\ Len(ExchangeOps(bus[i].x)) <= 2
            /\ (i < Len(bus) /\ ExchangeOps(bus[i].x)[1] # bus[i]) =>
                  /\ bus[i + 1].op = "write"
                  /\ bus[i + 1].x # bus[i].x
                  /\ bus[i + 1].n = 1

\* A OneLeg payload write was followed by the announcement of the next
\* frame of the same message, and another by that of a temperature poll.
C9_Witness ==
    /\ \E i \in 2..(Len(bus) - 1) :
          /\ bus[i].kind = "ONE_LEG" /\ bus[i - 1].x = bus[i].x
          /\ bus[i + 1].kind = "ONE_LEG"
    /\ \E i \in 2..(Len(bus) - 1) :
          /\ bus[i].kind = "ONE_LEG" /\ bus[i - 1].x = bus[i].x
          /\ bus[i + 1].kind = "TEMPERATURE"

\* C10: once opening the bus has failed the process has ended: nothing was
\* or is written to or read from the bus, no exchange was started, and no
\* callback of the loop runs.
C10_OpenFailureIsFatal ==
    fault.kind = "open" =>
        /\ phase = "exited"
        /\ bus = <<>> /\ nextX = 0
        /\ \A c \in Callbacks : pc[c] = "idle"
        /\ published = <<>>
        /\ reports = <<[level |-> "fatal", what |-> "CannotOpenSPI"]>>
        /\ ~ ENABLED Next

\* Opening the bus failed.
C10_Witness == fault.kind = "open" /\ phase = "exited" /\ Len(reports) = 1

\* The frame has the INFO receive length and its two marker bytes.
WellMarked(d) ==
    /\ Len(d) = FRAME_LENGTHS_RECEIVE["INFO"]
    /\ d[1] = FRAME_LENGTHS_RECEIVE["INFO"]
    /\ d[2] = FrameTypeValue["INFO"]

\* C7: the classification of a received INFO frame is one of the five
\* outcomes, decided by the local version and the bytes alone: Malformed
\* iff the length or the markers are wrong; otherwise VersionIncompatible
\* iff the majors differ, whatever the minors; otherwise VersionOlder iff
\* the remote minor is smaller, VersionNewer iff it is greater, and Valid
\* iff both are equal.
C7_Classification ==
    (probe.fn = "check_info_frame" /\ probe.out # "none") =>
        LET local == probe.arg[1]
            d     == probe.arg[2]
            r     == probe.out
        IN  /\ r \in Classifications
            /\ r = "MalformedHexapodInfoFrameError" <=> ~WellMarked(d)
            /\ WellMarked(d) =>
                  /\ r = "IncompatibleHexapodProtocolVersionError"
                         <=> d[3] # local[1]
                  /\ r = "OldHexapodProtocolVersionWarning"
                         <=> (d[3] = local[1] /\ d[4] < local[2])
                  /\ r = "NewHexapodProtocolVersionWarning"
                         <=> (d[3] = local[1] /\ d[4] > local[2])
                  /\ r = "ok" <=> (d[3] = local[1] /\ d[4] = local[2])

\* Remote major 2 against local major 1 was classified incompatible for a
\* remote minor below the local one.
C7_Witness ==
    /\ probe.fn = "check_info_frame"
    /\ probe.arg = <<(<<1, 1>>),
                     (<<FRAME_LENGTHS_RECEIVE["INFO"], FrameTypeValue["INFO"], 2, 0>>)>>
    /\ probe.out = "IncompatibleHexapodProtocolVersionError"

\* A received message waits, or frames of the message taken are unsent.
Backlog == legQueue # <<>> \/ legFrames # <<>>

\* C11 as stated: under fair scheduling every received leg-command message
\* is eventually transmitted, whatever the version-check and temperature
\* ticks do meanwhile (unless start-up fails or the command callback itself
\* ends with an exception).
C11_CommandsEventuallySent ==
    Backlog ~> (~Backlog \/ fault.cb = "leg" \/ fault.during = "construct")

\* The same, for the runs in which no info or temperature poll raises.
C11_SentUnlessPollRaises ==
    Backlog ~> (~Backlog \/ phase = "crashed")


Converted == probe.fn = "_convert_bytes_to_value" /\ probe.out # <<>>

RECURSIVE BigEndianValue(_)
\* The sum over i of b[i] * 256^(n-1-i), first byte most significant.
BigEndianValue(b) ==
    IF b = <<>> THEN 0
    ELSE b[1] * 256 ^ (Len(b) - 1) + BigEndianValue(Tail(b))

\* C12: for every non-empty byte sequence, _convert_bytes_to_value returns
\* its big-endian unsigned value.
C12_ConvertIsBigEndian ==
    (Converted /\ probe.arg # <<>>) => probe.out[1] = BigEndianValue(probe.arg)

\* The two temperature bytes 91, 160 have been converted to 23456.
C12_Witness ==
    Converted /\ probe.arg = <<91, 160>> /\ probe.out[1] = 23456

\* The value v written big-endian on n bytes.
BigEndianBytes(v, n) == [i \in 1..n |-> (v \div 256 ^ (n - i)) % 256]

\* C13: decoding a byte sequence and writing the result back big-endian on
\* as many bytes gives the sequence again.
C13_ConvertRoundTrip ==
    (Converted /\ probe.arg # <<>>)
        => BigEndianBytes(probe.out[1], Len(probe.arg)) = probe.arg

\* A sequence with a set high bit and a leading byte has been decoded to a
\* value whose bytes are the sequence.
C13_Witness ==
    /\ Converted /\ probe.arg = <<128, 255>>
    /\ BigEndianBytes(probe.out[1], 2) = <<128, 255>>

\* The TEMPERATURE reads on the bus, and the bytes after the two header
\* bytes of an answer.
TemperatureReads ==
    SelectSeq(bus, LAMBDA o : o.op = "read" /\ o.kind = "TEMPERATURE")
AfterHeader(answer) == SubSeq(answer, 3, Len(answer))

\* C14: every temperature tick that has read its answer has published
\* exactly one Temperature message (one per TEMPERATURE read); the message
\* is published with that read and none without, and its value is the
\* big-endian count of all answer bytes after the first two, over 1000.
C14_OneTemperaturePerTick ==
    /\ [](Len(published) = Len(TemperatureReads))
    /\ [][published' # published =>
            /\ bus' = Append(bus, BusOp("read", <<>>,
                                        FRAME_LENGTHS_RECEIVE["TEMPERATURE"],
                                        xid["temp"], "TEMPERATURE"))
            /\ published' =
                  Append(published,
                         [temperature |->
                              <<BigEndianValue(AfterHeader(data'["temp"])), 1000>>,
                          variance |-> 0])]_vars

\* The answer with raw count 23456 was read and 23456/1000 published, and
\* the handler has returned.
C14_Witness ==
    /\ pc["temp"] = "idle" /\ data["temp"] = <<4, 3, 91, 160>>
    /\ published # <<>>
    /\ published[Len(published)].temperature = <<23456, 1000>>

\* C15: a classification leaves nothing behind that later work depends on.
\* Whatever the polls so far were reported as, a free executor can start
\* every callback, a started handler can take its next bus step, an info
\* read can receive every answer, and it can be classified Valid.
C15_PollResultKeepsNoState ==
    phase \in {"construct", "spinning"} =>
        /\ (phase = "spinning" /\ ExecutorFree /\ Committed < MaxExchanges) =>
              /\ ENABLED info_tick
              /\ ENABLED temp_tick
              /\ \A batch \in LegBatches :
                    nextX + Len(batch) <= MaxExchanges =>
                        ENABLED (leg_deliver /\ legFrames' = batch)
        /\ pc["info"] = "announce" => ENABLED hhc_info_announce
        /\ pc["info"] = "payload" => ENABLED hhc_info_payload
        /\ pc["info"] = "read" =>
              /\ \A answer \in InfoResponses :
                    ENABLED (hhc_info_read /\ data'["info"] = answer)
              /\ ENABLED (hhc_info_read /\ phase' = "spinning"
                            /\ reports' = Append(reports,
                                   [level |-> "info", what |-> "ok"]))
        /\ pc["temp"] = "announce" => ENABLED temperature_announce
        /\ pc["temp"] = "payload" => ENABLED temperature_payload
        /\ pc["temp"] = "read" =>
              \A answer \in TempResponses :
                  ENABLED (temperature_read /\ data'["temp"] = answer)
        /\ pc["leg"] = "announce" => ENABLED leg_announce
        /\ pc["leg"] = "payload" => ENABLED leg_payload

\* The start-up poll was reported as an error; a temperature was published
\* and a leg frame sent after it, and a later poll was classified Valid.
C15_Witness ==
    /\ phase = "spinning" /\ Len(ClassReports) >= 2
    /\ ClassReports[1].level = "error"
    /\ ClassReports[Len(ClassReports)] = [level |-> "info", what |-> "ok"]
    /\ published # <<>>
    /\ \E i \in 1..Len(bus) : bus[i].kind = "ONE_LEG" /\ bus[i].x > 1

\* C16: the first exchange on the bus is the INFO exchange __init__ makes;
\* its three operations head the bus log, nothing else is on the bus until
\* construction is over, and the loop spins only after it has completed.
C16_FirstExchangeIsStartupInfo ==
    /\ \A i \in 1..Len(bus) :
          IF i <= 3
          THEN bus[i].kind = "INFO" /\ bus[i].x = 1
          ELSE bus[i].x > 1 /\ phase # "construct" /\ fault.during # "construct"
    /\ phase = "start" => bus = <<>>
    /\ phase = "spinning" => Len(bus) >= 3 /\ Len(InfoReads) >= 1
    /\ (phase = "construct" \/ fault.during = "construct") =>
          \A c \in {"temp", "leg"} : pc[c] = "idle"

\* After the start-up check a leg frame was the next thing sent, and a
\* temperature was read after it.
C16_Witness ==
    /\ phase = "spinning" /\ Len(bus) >= 8
    /\ bus[4].kind = "ONE_LEG"
    /\ \E i \in 6..Len(bus) : bus[i].kind = "TEMPERATURE" /\ bus[i].op = "read"

\* The ONE_LEG announcements and payloads on the bus, in order, and the
\* number of frames of the message at hand that were sent in full.
LegAnnounces ==
    SelectSeq(bus, LAMBDA o : o.kind = "ONE_LEG" /\ o.op = "write"
                              /\ o.bytes = <<FRAME_LENGTHS_TRANSMIT["ONE_LEG"]>>)
LegPayloads ==
    SelectSeq(bus, LAMBDA o : o.kind = "ONE_LEG" /\ o.op = "write"
                              /\ Len(o.bytes) = FRAME_LENGTHS_TRANSMIT["ONE_LEG"])
LegSent == Len(legBatch) - Len(legFrames)

\* C17: while a message of n frames is handled, the frames sent so far are
\* its first ones, one ONE_LEG exchange each, in the message's order and
\* each announced with the ONE_LEG transmit length; the frames left are the
\* rest of the message.  If the handler fails at a frame, that frame and
\* those after it are left unsent.  The handler returns with the payload
\* of the last frame.
C17_FramesSentInOrder ==
    /\ [](/\ legFrames = SubSeq(legBatch, LegSent + 1, Len(legBatch))
          /\ Len(LegPayloads) >= LegSent
          /\ \A j \in 1..LegSent :
                LegPayloads[Len(LegPayloads) - LegSent + j].bytes
                    = LegEncode(legBatch[j]).msg
          /\ Len(LegAnnounces)
                = Len(LegPayloads) + (IF pc["leg"] = "payload" THEN 1 ELSE 0)
          /\ pc["leg"] = "payload" => legMsg = LegEncode(Head(legFrames)).msg
          /\ fault.cb = "leg" => legFrames # <<>>)
    /\ [][(legBatch # <<>> /\ legBatch' = <<>>) =>
            /\ LegSent = Len(legBatch) - 1
            /\ bus' = Append(bus,
                  BusOp("write", LegEncode(legBatch[Len(legBatch)]).msg,
                        FRAME_LENGTHS_TRANSMIT["ONE_LEG"], xid["leg"], "ONE_LEG"))
            /\ fault' = NoFault]_vars

\* The second of two different frames could not be encoded: the first one
\* was sent in full and the second one was not announced.
C17_Witness ==
    /\ fault.cb = "leg" /\ fault.kind # "io"
    /\ Len(legBatch) = 2 /\ Len(legFrames) = 1
    /\ legBatch[1] # legBatch[2]
    /\ bus[Len(bus)].bytes = LegEncode(legBatch[1]).msg

\* C18: no ADC exchange occurs in any run: get_adc_info is never started,
\* nothing is printed, and every operation on the bus belongs to an INFO,
\* a TEMPERATURE or a ONE_LEG exchange.
C18_NoAdcExchange ==
    /\ pc["adc"] = "idle" /\ xid["adc"] = 0
    /\ stdout = <<>> /\ data["adc"] = <<>>
    /\ \A i \in 1..Len(bus) :
          bus[i].kind \in {"INFO", "TEMPERATURE", "ONE_LEG"}

\* The three kinds in use have each been announced on the bus, and the
\* loop is still spinning.
C18_Witness ==
    /\ phase = "spinning"
    /\ \A k \in {"INFO", "TEMPERATURE", "ONE_LEG"} :
          \E i \in 1..Len(bus) :
              bus[i].kind = k /\ bus[i].bytes = <<FRAME_LENGTHS_TRANSMIT[k]>>
    /\ nextX = MaxExchanges

====
